---- MODULE Spec2Model ----
(***************************************************************************)
(* A model of the xkb-data crate (src/src/lib.rs): the typed tree of an    *)
(* XKB rules document, the loader get_keyboard_layouts and its two         *)
(* default-path wrappers, the combined loader all_keyboard_layouts and the *)
(* merge helper concat_layout_lists.                                       *)
(*                                                                         *)
(* Conventions.  Option<T> is a sequence of length at most one: None is    *)
(* << >> and Some(x) is <<x>>.  io::Result<T> is a record with a tag, the  *)
(* value as an Option and the error as an Option.  A Vec or a slice is a   *)
(* sequence.                                                               *)
(***************************************************************************)
EXTENDS Naturals, Sequences, FiniteSets, TLC

VARIABLES
    fs,             \* the file system: path -> file state
    env,            \* the process environment: variable name -> value
    pc,             \* position inside all_keyboard_layouts ("idle" outside)
    base_rules,     \* local of all_keyboard_layouts (line 114), an Option
    extras_rules,   \* local of all_keyboard_layouts (line 115), an Option
    ret_base,       \* Option: what keyboard_layouts() last returned
    ret_extras,     \* Option: what extra_keyboard_layouts() last returned
    ret_all,        \* Option: what all_keyboard_layouts() last returned
    base_path,      \* Option: the path keyboard_layouts() last passed on
    extras_path,    \* Option: the path extra_keyboard_layouts() last passed on
    trace,          \* the file-system events of the last loading call
    loaded,         \* path -> Option: result of the last load of that path
    reloaded,       \* Option: [path, result] of a load repeated on a path
    held,           \* Option: the catalog the caller owns
    origin,         \* Option: that catalog as it was when loaded
    edits,          \* number of layouts_mut edits made to the held catalog
    view,           \* Option: what layouts() last returned
    variants_call,  \* Option: [of, got] of the last variants() call
    lists,          \* Option: the argument of the last concat_layout_lists
    concat_ret      \* Option: what that call returned

vars == <<fs, env, pc, base_rules, extras_rules, ret_base, ret_extras, ret_all,
          base_path, extras_path, trace, loaded, reloaded, held, origin, edits,
          view, variants_call, lists, concat_ret>>

loaderVars == <<env, pc, base_rules, extras_rules, ret_base, ret_extras,
                ret_all, base_path, extras_path>>
catalogVars == <<held, origin, edits, view, variants_call>>
concatVars == <<lists, concat_ret>>

-----------------------------------------------------------------------------
(* Bounds of the model. *)

\* most <layout> elements in a generated document
MaxLayouts == 2
\* most <variant> elements in a generated <variantList>
MaxVariants == 1
\* most layouts_mut edits made to one held catalog
MaxEdits == 2
\* most LayoutList values handed to concat_layout_lists
MaxLists == 3
\* most layouts in one LayoutList handed to concat_layout_lists
MaxListLen == 2

-----------------------------------------------------------------------------
(* Option and io::Result. *)

None == << >>
Some(x) == <<x>>

Ok(v) == [tag |-> "Ok", value |-> Some(v), error |-> None]
Err(e) == [tag |-> "Err", value |-> None, error |-> Some(e)]
IsOk(r) == r.tag = "Ok"
IsErr(r) == r.tag = "Err"

\* io::Error::new(kind, message), and an error made from an OS error code.
IoError(kind, msg) == [kind |-> kind, msg |-> msg]

\* format!("{}", why): the Display of an io::Error is its message.
Display(why) == why.msg

\* All sequences over S of length at most n.
SeqUpTo(S, n) == UNION {[1..k -> S] : k \in 0..n}

-----------------------------------------------------------------------------
(* The XML documents: an element tree before deserialization.  An absent   *)
(* child element is None.                                                  *)

ConfigItemElem(name, short, desc) ==
    [name |-> name, shortDescription |-> short, description |-> desc]

UsItem == ConfigItemElem(Some("us"), Some("en"), Some("English (US)"))
DeItem == ConfigItemElem(Some("de"), None, Some("German"))
UsExtraItem == ConfigItemElem(Some("us"), None, Some("English (US, extras)"))
AplItem == ConfigItemElem(Some("apl"), None, Some("APL"))
NoDeadKeysItem ==
    ConfigItemElem(Some("nodeadkeys"), None, Some("German (no dead keys)"))
DvorakItem == ConfigItemElem(Some("dvorak"), None, Some("Dvorak"))
NoNameItem == ConfigItemElem(None, None, Some("German"))
NoDescriptionItem == ConfigItemElem(Some("de"), None, None)

VariantElem(item) == [configItem |-> item]
\* variantList is None (no element) or Some(sequence of <variant> elements)
LayoutElem(item, variantList) == [configItem |-> item, variantList |-> variantList]
\* a well-formed XML document whose root holds a <layoutList>
XmlDoc(layoutElems) == [wellformed |-> TRUE, layout |-> layoutElems]
\* bytes that are not well-formed XML
Garbage == [wellformed |-> FALSE, layout |-> << >>]

\* File states: no such file, a file the process may not open, a file.
Absent == [state |-> "absent", data |-> None]
NoAccess == [state |-> "noaccess", data |-> None]
File(data) == [state |-> "file", data |-> Some(data)]

-----------------------------------------------------------------------------
(* Schema Model: deserialization of the element tree into the typed tree.  *)
(* The derived deserializers walk the document in order and stop at the    *)
(* first element that does not fit: X_error is that first failure (None    *)
(* when there is none) and deserialize_X is the value built when there is  *)
(* none.  serde reports a required field that has no element as "missing   *)
(* field"; an Option field with no element is None; a Vec field with no    *)
(* element is a missing field.                                             *)

\* struct ConfigItem { name, short_description: Option, description }
ConfigItem_error(e) ==
    IF e.name = None THEN Some("missing field name")
    ELSE IF e.description = None THEN Some("missing field description")
    ELSE None

deserialize_ConfigItem(e) ==
    [name |-> e.name[1],
     short_description |-> e.shortDescription,
     description |-> e.description[1]]

\* struct KeyboardVariant { config_item }
KeyboardVariant_error(e) == ConfigItem_error(e.configItem)

deserialize_KeyboardVariant(e) ==
    [config_item |-> deserialize_ConfigItem(e.configItem)]

\* Vec<KeyboardVariant>: the <variant> elements in document order.
RECURSIVE variants_error(_)
variants_error(elems) ==
    IF elems = << >> THEN None
    ELSE IF KeyboardVariant_error(Head(elems)) # None
    THEN KeyboardVariant_error(Head(elems))
    ELSE variants_error(Tail(elems))

deserialize_variants(elems) ==
    [k \in 1..Len(elems) |-> deserialize_KeyboardVariant(elems[k])]

\* struct VariantList { variant: Option<Vec<KeyboardVariant>> }: with no
\* <variant> element the field is None, never Some of an empty Vec.
VariantList_error(elems) == variants_error(elems)

deserialize_VariantList(elems) ==
    [variant |-> IF elems = << >> THEN None
                 ELSE Some(deserialize_variants(elems))]

\* struct KeyboardLayout { config_item, variant_list: Option<VariantList> }
KeyboardLayout_error(e) ==
    IF ConfigItem_error(e.configItem) # None THEN ConfigItem_error(e.configItem)
    ELSE IF e.variantList = None THEN None
    ELSE VariantList_error(e.variantList[1])

deserialize_KeyboardLayout(e) ==
    [config_item |-> deserialize_ConfigItem(e.configItem),
     variant_list |-> IF e.variantList = None THEN None
                      ELSE Some(deserialize_VariantList(e.variantList[1]))]

\* Vec<KeyboardLayout>: the <layout> elements in document order.
RECURSIVE layouts_error(_)
layouts_error(elems) ==
    IF elems = << >> THEN None
    ELSE IF KeyboardLayout_error(Head(elems)) # None
    THEN KeyboardLayout_error(Head(elems))
    ELSE layouts_error(Tail(elems))

deserialize_layouts(elems) ==
    [k \in 1..Len(elems) |-> deserialize_KeyboardLayout(elems[k])]

\* struct LayoutList { layout: Vec<KeyboardLayout> }
LayoutList_error(elems) ==
    IF elems = << >> THEN Some("missing field layout")
    ELSE layouts_error(elems)

deserialize_LayoutList(elems) == [layout |-> deserialize_layouts(elems)]

\* struct KeyboardLayouts { layout_list: LayoutList }
KeyboardLayouts_error(doc) == LayoutList_error(doc.layout)

deserialize_KeyboardLayouts(doc) ==
    [layout_list |-> deserialize_LayoutList(doc.layout)]

\* A lenient reader: a <layout> element that does not fit is skipped and the
\* layouts that fit are returned.
LayoutFits(e) == KeyboardLayout_error(e) = None
from_reader_lenient(data) ==
    IF ~data.wellformed THEN Err("unexpected token: document is not XML")
    ELSE IF SelectSeq(data.layout, LayoutFits) = << >>
    THEN Err("missing field layout")
    ELSE Ok([layout_list |->
                deserialize_LayoutList(SelectSeq(data.layout, LayoutFits))])

\* xml::from_reader: the XML must be well formed, then fit the schema.
from_reader(data) ==
    IF ~data.wellformed THEN Err("unexpected token: document is not XML")
    ELSE IF KeyboardLayouts_error(data) # None
    THEN Err(KeyboardLayouts_error(data)[1])
    ELSE Ok(deserialize_KeyboardLayouts(data))

-----------------------------------------------------------------------------
(* Schema Model: the accessors. *)

\* KeyboardLayouts::layouts
layouts(catalog) == catalog.layout_list.layout

\* KeyboardLayout::name, KeyboardLayout::description
name(layout) == layout.config_item.name
description(layout) == layout.config_item.description

\* The closure |x| x.variant.as_ref() of KeyboardLayout::variants
VariantOf(x) == x.variant

\* An accessor that unwraps the outer Option to a default: a layout with no
\* variant list reads as one with an empty list.
variants_or_default(layout) ==
    IF layout.variant_list = None THEN Some(<< >>)
    ELSE VariantOf(layout.variant_list[1])

\* KeyboardLayout::variants: variant_list.as_ref().and_then(closure), where
\* and_then gives None for None and the closure's result for Some.
variants(layout) ==
    IF layout.variant_list = None THEN None
    ELSE VariantOf(layout.variant_list[1])

\* The catalog with its layout sequence replaced.
with_layouts(catalog, s) == [layout_list |-> [layout |-> s]]

\* What one use of a Vec reached through a mutable reference can leave
\* behind: an element replaced, an element pushed, the last one popped.
vec_edits(s, values) ==
    {[s EXCEPT ![i] = v] : i \in 1..Len(s), v \in values}
    \cup {Append(s, v) : v \in values}
    \cup (IF s = << >> THEN {} ELSE {SubSeq(s, 1, Len(s) - 1)})

\* KeyboardLayouts::layouts_mut returns &mut [KeyboardLayout]: what one use
\* of the slice can leave behind is an element replaced (slice[i] = v, or a
\* write to its public fields) or two elements swapped (slice.swap(i, j)).
slice_edits(s, values) ==
    {[s EXCEPT ![i] = v] : i \in 1..Len(s), v \in values}
    \cup {[s EXCEPT ![i] = s[j], ![j] = s[i]] : i \in 1..Len(s), j \in 1..Len(s)}

-----------------------------------------------------------------------------
(* Loader. *)

X11_BASE_RULES == "/usr/share/X11/xkb/rules/base.xml"
X11_EXTRAS_RULES == "/usr/share/X11/xkb/rules/base.extras.xml"

\* File::open(path): the handle (here the data of the file) or the OS error.
File_open(path) ==
    IF fs[path].state = "absent"
    THEN Err(IoError("NotFound", "No such file or directory (os error 2)"))
    ELSE IF fs[path].state = "noaccess"
    THEN Err(IoError("PermissionDenied", "Permission denied (os error 13)"))
    ELSE Ok(fs[path].data[1])

\* A loader with a cache: a path whose catalog the caller still holds is
\* answered with that same catalog, edits included, and the file is not read.
get_keyboard_layouts_cached(path) ==
    IF /\ loaded[path] # None /\ IsOk(loaded[path][1])
       /\ held # None /\ origin = loaded[path][1].value
    THEN Ok(held[1])
    ELSE LET file == File_open(path)
         IN  IF IsErr(file) THEN Err(file.error[1])
             ELSE LET parsed == from_reader(file.value[1])
                  IN  IF IsErr(parsed)
                      THEN Err(IoError("InvalidData", parsed.error[1]))
                      ELSE Ok(parsed.value[1])

\* get_keyboard_layouts(path): ? returns the open error as it is; a
\* deserialization error is wrapped as InvalidData with its message.
get_keyboard_layouts(path) ==
    LET file == File_open(path)
    IN  IF IsErr(file) THEN Err(file.error[1])
        ELSE LET parsed == from_reader(file.value[1])
             IN  IF IsErr(parsed)
                 THEN Err(IoError("InvalidData", parsed.error[1]))
                 ELSE Ok(parsed.value[1])

\* What get_keyboard_layouts(path) does to the file system, in order: one
\* open, and one read of the whole document when the open succeeded.
io_events(path) ==
    <<[op |-> "open", path |-> path]>>
    \o (IF IsOk(File_open(path)) THEN <<[op |-> "parse", path |-> path]>>
        ELSE << >>)

-----------------------------------------------------------------------------
(* The environment variables and the default-path loaders. *)

AltPath == "/tmp/alt.xml"
Paths == {X11_BASE_RULES, X11_EXTRAS_RULES, AltPath}
EnvNames == {"X11_BASE_RULES_XML", "X11_EXTRA_RULES_XML"}

\* A variable is not set, set to a string, or set to bytes that are not
\* valid Unicode (which no &str path can name).
Unset == [state |-> "unset", value |-> ""]
SetTo(path) == [state |-> "unicode", value |-> path]
NotUnicode == [state |-> "not_unicode", value |-> "<bytes that are not UTF-8>"]
EnvValues == {Unset, NotUnicode, SetTo(AltPath)}

\* std::env::var(key): Ok only for a variable that is set to valid Unicode.
env_var(key) ==
    IF env[key].state = "unicode" THEN Ok(env[key].value)
    ELSE IF env[key].state = "not_unicode" THEN Err("NotUnicode")
    ELSE Err("NotPresent")

\* The path keyboard_layouts() hands to get_keyboard_layouts.
keyboard_layouts_path ==
    LET x11_base_rules_xml == env_var("X11_BASE_RULES_XML")
    IN  IF IsOk(x11_base_rules_xml) THEN x11_base_rules_xml.value[1]
        ELSE X11_BASE_RULES

keyboard_layouts == get_keyboard_layouts(keyboard_layouts_path)

\* The path extra_keyboard_layouts() hands to get_keyboard_layouts.
extra_keyboard_layouts_path ==
    LET x11_extra_rules_xml == env_var("X11_EXTRA_RULES_XML")
    IN  IF IsOk(x11_extra_rules_xml) THEN x11_extra_rules_xml.value[1]
        ELSE X11_EXTRAS_RULES

extra_keyboard_layouts == get_keyboard_layouts(extra_keyboard_layouts_path)

-----------------------------------------------------------------------------
(* Merger. *)

\* The loop of concat_layout_lists: new_layouts.extend(layout_list.layout)
\* for each list in input order.
RECURSIVE concat_loop(_, _)
concat_loop(new_layouts, rest) ==
    IF rest = << >> THEN new_layouts
    ELSE concat_loop(new_layouts \o Head(rest).layout, Tail(rest))

\* A merge written for the one call site: the first two lists only.
concat_first_two(layout_lists) ==
    [layout |-> concat_loop(<< >>, SubSeq(layout_lists, 1,
                                          IF Len(layout_lists) < 2
                                          THEN Len(layout_lists) ELSE 2))]

concat_layout_lists(layout_lists) == [layout |-> concat_loop(<< >>, layout_lists)]

\* A merge that puts the extras list first.
merge_rules_extras_first(base, extras) ==
    [layout_list |-> concat_layout_lists(<<extras.layout_list, base.layout_list>>)]

merge_rules(base, extras) ==
    [layout_list |-> concat_layout_lists(<<base.layout_list, extras.layout_list>>)]

\* A match whose arms give the extras failure precedence.
all_match_extras_first(base, extras) ==
    IF IsOk(base) /\ IsOk(extras)
    THEN Ok(merge_rules(base.value[1], extras.value[1]))
    ELSE IF IsErr(extras)
    THEN Err(IoError("InvalidData", Display(extras.error[1])))
    ELSE Err(IoError("InvalidData", Display(base.error[1])))

\* The match of all_keyboard_layouts on the two results (lines 117-121).
all_match(base, extras) ==
    IF IsOk(base) /\ IsOk(extras)
    THEN Ok(merge_rules(base.value[1], extras.value[1]))
    ELSE IF IsErr(base)
    THEN Err(IoError("InvalidData", Display(base.error[1])))
    ELSE Err(IoError("InvalidData", Display(extras.error[1])))

\* A base load followed by `?`: a failure skips the extras load.
after_base_load_early_return(base) == IF IsErr(base) THEN "line117" ELSE "line115"

\* Where all_keyboard_layouts goes after line 114: on to line 115, whatever
\* the base load returned.
after_base_load(base) == "line115"

-----------------------------------------------------------------------------
(* The documents installed in the modelled file system. *)

\* the base document of the end-to-end example: us, and de with one variant
BaseDoc ==
    XmlDoc(<<LayoutElem(UsItem, None),
             LayoutElem(DeItem, Some(<<VariantElem(NoDeadKeysItem)>>))>>)
\* an extras document: an empty <variantList>, and a name the base also has
ExtrasDoc ==
    XmlDoc(<<LayoutElem(AplItem, Some(<< >>)),
             LayoutElem(UsExtraItem, Some(<<VariantElem(DvorakItem)>>))>>)
\* a document whose second layout lacks the required name
BadDoc == XmlDoc(<<LayoutElem(UsItem, None), LayoutElem(NoNameItem, None)>>)

InstalledFiles ==
    {Absent, NoAccess, File(Garbage), File(BadDoc), File(BaseDoc), File(ExtrasDoc)}

-----------------------------------------------------------------------------
(* Specification Spec: a process that changes its environment and calls    *)
(* the three default-path loaders.  all_keyboard_layouts is three steps,   *)
(* one per statement (lines 114, 115, 117-121).                            *)

InitCatalog ==
    /\ held = None /\ origin = None /\ edits = 0
    /\ view = None /\ variants_call = None
InitConcat == lists = None /\ concat_ret = None
InitLoader ==
    /\ env = [k \in EnvNames |-> Unset]
    /\ pc = "idle"
    /\ base_rules = None /\ extras_rules = None
    /\ ret_base = None /\ ret_extras = None /\ ret_all = None
    /\ base_path = None /\ extras_path = None

Init ==
    /\ fs \in [Paths -> InstalledFiles]
    /\ InitLoader /\ InitCatalog /\ InitConcat
    /\ trace = << >>
    /\ loaded = [p \in Paths |-> None]
    /\ reloaded = None

\* std::env::set_var / remove_var between calls; earlier results are dropped.
SetEnv(key, val) ==
    /\ pc = "idle"
    /\ env[key] # val
    /\ env' = [env EXCEPT ![key] = val]
    /\ ret_base' = None /\ ret_extras' = None /\ ret_all' = None
    /\ base_path' = None /\ extras_path' = None
    /\ trace' = << >>
    /\ UNCHANGED <<fs, pc, base_rules, extras_rules, loaded, reloaded>>
    /\ UNCHANGED catalogVars /\ UNCHANGED concatVars

\* keyboard_layouts()
KeyboardLayouts ==
    /\ pc = "idle"
    /\ ret_base' = Some(keyboard_layouts)
    /\ base_path' = Some(keyboard_layouts_path)
    /\ trace' = io_events(keyboard_layouts_path)
    /\ UNCHANGED <<fs, env, pc, base_rules, extras_rules, ret_extras, ret_all,
                   extras_path, loaded, reloaded>>
    /\ UNCHANGED catalogVars /\ UNCHANGED concatVars

\* extra_keyboard_layouts()
ExtraKeyboardLayouts ==
    /\ pc = "idle"
    /\ ret_extras' = Some(extra_keyboard_layouts)
    /\ extras_path' = Some(extra_keyboard_layouts_path)
    /\ trace' = io_events(extra_keyboard_layouts_path)
    /\ UNCHANGED <<fs, env, pc, base_rules, extras_rules, ret_base, ret_all,
                   base_path, loaded, reloaded>>
    /\ UNCHANGED catalogVars /\ UNCHANGED concatVars

\* all_keyboard_layouts(), line 114: let base_rules = keyboard_layouts();
AllBase ==
    /\ pc = "idle"
    /\ base_rules' = Some(keyboard_layouts)
    /\ base_path' = Some(keyboard_layouts_path)
    /\ trace' = io_events(keyboard_layouts_path)
    /\ ret_all' = None
    /\ pc' = after_base_load(keyboard_layouts)
    /\ UNCHANGED <<fs, env, extras_rules, ret_base, ret_extras, extras_path,
                   loaded, reloaded>>
    /\ UNCHANGED catalogVars /\ UNCHANGED concatVars

\* all_keyboard_layouts(), line 115: let extras_rules = extra_keyboard_layouts();
AllExtras ==
    /\ pc = "line115"
    /\ extras_rules' = Some(extra_keyboard_layouts)
    /\ extras_path' = Some(extra_keyboard_layouts_path)
    /\ trace' = trace \o io_events(extra_keyboard_layouts_path)
    /\ pc' = "line117"
    /\ UNCHANGED <<fs, env, base_rules, ret_base, ret_extras, ret_all,
                   base_path, loaded, reloaded>>
    /\ UNCHANGED catalogVars /\ UNCHANGED concatVars

\* all_keyboard_layouts(), lines 117-121: the match and the return.  A local
\* that was never assigned reads as the result of a load that did not run.
NotRun == Err(IoError("NotRun", "the load did not run"))
Local(opt) == IF opt = None THEN NotRun ELSE opt[1]
AllMatch ==
    /\ pc = "line117"
    /\ ret_all' = Some(all_match(Local(base_rules), Local(extras_rules)))
    /\ base_rules' = None /\ extras_rules' = None
    /\ pc' = "idle"
    /\ UNCHANGED <<fs, env, ret_base, ret_extras, base_path, extras_path,
                   trace, loaded, reloaded>>
    /\ UNCHANGED catalogVars /\ UNCHANGED concatVars

Next ==
    \/ \E key \in EnvNames, val \in EnvValues : SetEnv(key, val)
    \/ KeyboardLayouts
    \/ ExtraKeyboardLayouts
    \/ AllBase
    \/ AllExtras
    \/ AllMatch

Spec == Init /\ [][Next]_vars

-----------------------------------------------------------------------------
(* Properties of Spec. *)

\* The three public calls have all returned under the present environment.
AllReturned == ret_base # None /\ ret_extras # None /\ ret_all # None

\* C1: whenever keyboard_layouts() and extra_keyboard_layouts() both
\* succeed, all_keyboard_layouts() succeeds and its layouts are the base
\* layouts followed by the extras layouts: the length is the sum, entry i is
\* base entry i, entry K + j is extras entry j, duplicates included.
C1_MergeIsBaseThenExtras ==
    (AllReturned /\ IsOk(ret_base[1]) /\ IsOk(ret_extras[1])) =>
        /\ IsOk(ret_all[1])
        /\ LET b == layouts(ret_base[1].value[1])
               e == layouts(ret_extras[1].value[1])
               a == layouts(ret_all[1].value[1])
           IN  /\ Len(a) = Len(b) + Len(e)
               /\ \A i \in 1..Len(b) : a[i] = b[i]
               /\ \A j \in 1..Len(e) : a[Len(b) + j] = e[j]

\* C1 witness: both loads succeeded, the merge returned, and a layout name
\* of the base occurs in the extras too.
C1_Witness ==
    /\ AllReturned /\ IsOk(ret_base[1]) /\ IsOk(ret_extras[1]) /\ IsOk(ret_all[1])
    /\ \E i \in 1..Len(layouts(ret_base[1].value[1])) :
       \E j \in 1..Len(layouts(ret_extras[1].value[1])) :
          /\ name(layouts(ret_base[1].value[1])[i])
                = name(layouts(ret_extras[1].value[1])[j])
          /\ layouts(ret_base[1].value[1])[i] # layouts(ret_extras[1].value[1])[j]

\* C2: with X11_BASE_RULES_XML naming a nonexistent file, keyboard_layouts()
\* and all_keyboard_layouts() both fail with the platform's access-failure
\* kind (NotFound); with it naming a file of invalid XML both fail with
\* InvalidData; all_keyboard_layouts() returns the kind keyboard_layouts()
\* returns.
C2_BaseFailureKeepsItsKind ==
    (/\ env["X11_BASE_RULES_XML"] = SetTo(AltPath)
     /\ ret_base # None /\ ret_all # None) =>
        /\ fs[AltPath] = Absent =>
              /\ IsErr(ret_base[1]) /\ ret_base[1].error[1].kind = "NotFound"
              /\ IsErr(ret_all[1]) /\ ret_all[1].error[1].kind = "NotFound"
        /\ fs[AltPath] = File(Garbage) =>
              /\ IsErr(ret_base[1]) /\ ret_base[1].error[1].kind = "InvalidData"
              /\ IsErr(ret_all[1]) /\ ret_all[1].error[1].kind = "InvalidData"
        /\ IsErr(ret_base[1]) =>
              /\ IsErr(ret_all[1])
              /\ ret_all[1].error[1].kind = ret_base[1].error[1].kind

\* C3: all_keyboard_layouts() fails exactly when one of the two loads fails;
\* its error carries the message of the base load when that failed, else the
\* message of the extras load, and it returns no catalog with the error.
C3_FirstFailureWins ==
    AllReturned =>
        LET b == ret_base[1]
            e == ret_extras[1]
            a == ret_all[1]
        IN  /\ IsErr(a) <=> (IsErr(b) \/ IsErr(e))
            /\ IsErr(b) =>
                  /\ IsErr(a) /\ a.value = None
                  /\ Display(a.error[1]) = Display(b.error[1])
            /\ (IsOk(b) /\ IsErr(e)) =>
                  /\ IsErr(a) /\ a.value = None
                  /\ Display(a.error[1]) = Display(e.error[1])

\* C3 witness: both loads failed, with different messages, and the combined
\* loader returned.
C3_Witness ==
    /\ AllReturned /\ IsErr(ret_base[1]) /\ IsErr(ret_extras[1])
    /\ Display(ret_base[1].error[1]) # Display(ret_extras[1].error[1])
    /\ IsErr(ret_all[1])

\* C6: keyboard_layouts() loads from the value of X11_BASE_RULES_XML whenever
\* that variable is set and from the default path only when it is not set;
\* extra_keyboard_layouts() likewise with X11_EXTRA_RULES_XML and its default.
C6_OverrideUsedWheneverSet ==
    /\ base_path # None =>
          base_path[1] = IF env["X11_BASE_RULES_XML"] # Unset
                         THEN env["X11_BASE_RULES_XML"].value
                         ELSE X11_BASE_RULES
    /\ extras_path # None =>
          extras_path[1] = IF env["X11_EXTRA_RULES_XML"] # Unset
                           THEN env["X11_EXTRA_RULES_XML"].value
                           ELSE X11_EXTRAS_RULES

\* The paths opened, in order, and the number of documents read.
IsOpen(ev) == ev.op = "open"
IsParse(ev) == ev.op = "parse"
RECURSIVE PathsOf(_)
PathsOf(events) ==
    IF events = << >> THEN << >>
    ELSE <<Head(events).path>> \o PathsOf(Tail(events))
Opened == PathsOf(SelectSeq(trace, IsOpen))
Parsed == PathsOf(SelectSeq(trace, IsParse))

\* C8: when all_keyboard_layouts() reaches its match, it has opened the base
\* path and then the extras path, each once and in that order, and both
\* results are there, also when the base load failed; after line 114 alone
\* only the base path has been opened.
C8_BothLoadsRunInOrder ==
    /\ pc = "line115" =>
          /\ Opened = <<keyboard_layouts_path>>
          /\ base_rules # None /\ extras_rules = None
    /\ pc = "line117" =>
          /\ Opened = <<keyboard_layouts_path, extra_keyboard_layouts_path>>
          /\ base_rules # None /\ extras_rules # None
          /\ IsOk(extras_rules[1]) =>
                Parsed # << >> /\ Parsed[Len(Parsed)] = extra_keyboard_layouts_path

\* C8 witness: the match is reached after a failed base load, and the extras
\* file was opened and read all the same.
C8_Witness ==
    /\ pc = "line117"
    /\ base_rules # None /\ IsErr(base_rules[1])
    /\ extras_rules # None /\ IsOk(extras_rules[1])
    /\ Len(Opened) = 2 /\ Parsed = <<extra_keyboard_layouts_path>>

-----------------------------------------------------------------------------
(* Specification SpecParse: get_keyboard_layouts on every file state that  *)
(* the bounds generate, installed at AltPath; the default paths have no    *)
(* file.                                                                   *)

ItemElems == {UsItem, DeItem, NoNameItem}
VariantElems == {VariantElem(NoDeadKeysItem), VariantElem(NoDescriptionItem)}
VariantListElems == {None} \cup {Some(v) : v \in SeqUpTo(VariantElems, MaxVariants)}
LayoutElems == {LayoutElem(i, v) : i \in ItemElems, v \in VariantListElems}
GeneratedDocs == {XmlDoc(l) : l \in SeqUpTo(LayoutElems, MaxLayouts)}
GeneratedFiles ==
    {Absent, NoAccess, File(Garbage)} \cup {File(d) : d \in GeneratedDocs}

\* let result = get_keyboard_layouts(path), by a caller.  A load of a path
\* already loaded since its file last changed is recorded as a reload.
Load(path) ==
    /\ pc = "idle"
    /\ loaded' = [loaded EXCEPT ![path] = Some(get_keyboard_layouts(path))]
    /\ reloaded' = IF loaded[path] = None THEN None
                   ELSE Some([path |-> path, first |-> loaded[path][1],
                              second |-> get_keyboard_layouts(path)])
    /\ trace' = io_events(path)
    /\ UNCHANGED fs
    /\ UNCHANGED loaderVars /\ UNCHANGED catalogVars /\ UNCHANGED concatVars

InitParse ==
    /\ fs \in {[p \in Paths |-> IF p = AltPath THEN f ELSE Absent] :
                  f \in GeneratedFiles}
    /\ InitLoader /\ InitCatalog /\ InitConcat
    /\ trace = << >>
    /\ loaded = [p \in Paths |-> None]
    /\ reloaded = None

NextParse == \E path \in Paths : Load(path)

SpecParse == InitParse /\ [][NextParse]_vars

\* What the schema asks of a document, stated on the element tree.
ValidItem(e) == e.name # None /\ e.description # None
ValidLayout(l) ==
    /\ ValidItem(l.configItem)
    /\ l.variantList # None =>
          \A j \in 1..Len(l.variantList[1]) : ValidItem(l.variantList[1][j].configItem)
ValidDoc(data) ==
    /\ data.wellformed
    /\ Len(data.layout) >= 1
    /\ \A i \in 1..Len(data.layout) : ValidLayout(data.layout[i])

ParserMessages ==
    {"unexpected token: document is not XML", "missing field name",
     "missing field description", "missing field layout"}

\* The catalog holds every <layout> of the document, in document order.
Complete(catalog, data) ==
    /\ Len(layouts(catalog)) = Len(data.layout)
    /\ \A i \in 1..Len(data.layout) :
          LET l == layouts(catalog)[i]
              e == data.layout[i]
          IN  /\ name(l) = e.configItem.name[1]
              /\ description(l) = e.configItem.description[1]
              /\ (e.variantList = None) <=> (l.variant_list = None)
              /\ e.variantList # None =>
                    Len(e.variantList[1]) =
                        (IF variants(l) = None THEN 0 ELSE Len(variants(l)[1]))

\* C4: get_keyboard_layouts(path) has one of three outcomes.  A file that
\* cannot be opened gives the platform error with its own kind and nothing is
\* read; a file that opens but is not a valid document gives InvalidData with
\* the parser's message and no catalog, however many of its layouts are
\* valid; any other file gives the complete catalog.  The file is opened
\* once and read at most once.
C4_ThreeOutcomes ==
    \A path \in Paths :
        loaded[path] # None =>
            LET r == loaded[path][1]
                f == fs[path]
            IN  /\ f.state = "absent" =>
                      /\ IsErr(r) /\ r.value = None
                      /\ r.error[1].kind = "NotFound"
                /\ f.state = "noaccess" =>
                      /\ IsErr(r) /\ r.value = None
                      /\ r.error[1].kind = "PermissionDenied"
                /\ (f.state = "file" /\ ~ValidDoc(f.data[1])) =>
                      /\ IsErr(r) /\ r.value = None
                      /\ r.error[1].kind = "InvalidData"
                      /\ r.error[1].msg \in ParserMessages
                /\ (f.state = "file" /\ ValidDoc(f.data[1])) =>
                      /\ IsOk(r) /\ r.error = None
                      /\ Complete(r.value[1], f.data[1])
                /\ (trace # << >> /\ trace[1].path = path) =>
                      /\ Opened = <<path>>
                      /\ Parsed = IF f.state = "file" THEN <<path>> ELSE << >>

\* C4 witness: a loaded document whose first layout is valid and whose
\* second is not; the load returned an error.
C4_Witness ==
    \E path \in Paths :
        /\ loaded[path] # None /\ IsErr(loaded[path][1])
        /\ fs[path].state = "file"
        /\ fs[path].data[1].wellformed
        /\ Len(fs[path].data[1].layout) = 2
        /\ ValidLayout(fs[path].data[1].layout[1])
        /\ ~ValidLayout(fs[path].data[1].layout[2])

-----------------------------------------------------------------------------
(* Specification SpecCatalog: a caller that loads the two default paths,   *)
(* keeps one catalog, reads and edits it through the accessors, and loads  *)
(* again, while the files may be rewritten between calls.                  *)

LoadPaths == {X11_BASE_RULES, X11_EXTRAS_RULES}

\* KeyboardLayout values a caller can build from the public fields.
CustomLayout ==
    [config_item |-> [name |-> "custom", short_description |-> None,
                      description |-> "Custom"],
     variant_list |-> Some([variant |-> Some(<< >>)])]
PlainLayout ==
    [config_item |-> [name |-> "us", short_description |-> None,
                      description |-> "Plain"],
     variant_list |-> None]
EditValues == {CustomLayout, PlainLayout}

InitCatalogSpec ==
    /\ fs = [p \in Paths |-> IF p = X11_BASE_RULES THEN File(BaseDoc)
                             ELSE IF p = X11_EXTRAS_RULES THEN File(ExtrasDoc)
                             ELSE Absent]
    /\ InitLoader /\ InitCatalog /\ InitConcat
    /\ trace = << >>
    /\ loaded = [p \in Paths |-> None]
    /\ reloaded = None

\* Something outside the process rewrites, removes or protects a file.
WriteFile(path, f) ==
    /\ pc = "idle"
    /\ fs[path] # f
    /\ fs' = [fs EXCEPT ![path] = f]
    /\ loaded' = [loaded EXCEPT ![path] = None]
    /\ reloaded' = None
    /\ UNCHANGED trace
    /\ UNCHANGED loaderVars /\ UNCHANGED catalogVars /\ UNCHANGED concatVars

\* let mut held = result?: the caller takes the catalog a load returned.
Keep(path) ==
    /\ held = None
    /\ loaded[path] # None /\ IsOk(loaded[path][1])
    /\ held' = loaded[path][1].value
    /\ origin' = loaded[path][1].value
    /\ edits' = 0
    /\ view' = None /\ variants_call' = None
    /\ UNCHANGED <<fs, trace, loaded, reloaded>>
    /\ UNCHANGED loaderVars /\ UNCHANGED concatVars

\* The caller discards its catalog.
Drop ==
    /\ held # None
    /\ held' = None /\ origin' = None /\ edits' = 0
    /\ view' = None /\ variants_call' = None
    /\ UNCHANGED <<fs, trace, loaded, reloaded>>
    /\ UNCHANGED loaderVars /\ UNCHANGED concatVars

\* held.layouts()
Layouts ==
    /\ held # None
    /\ view' = Some(layouts(held[1]))
    /\ UNCHANGED <<held, origin, edits, variants_call>>
    /\ UNCHANGED <<fs, trace, loaded, reloaded>>
    /\ UNCHANGED loaderVars /\ UNCHANGED concatVars

\* One edit through held.layouts_mut(); the mutable borrow ends every earlier
\* borrow of the catalog.
LayoutsMut ==
    /\ held # None
    /\ edits < MaxEdits
    /\ \E s \in slice_edits(layouts(held[1]), EditValues) :
          held' = Some(with_layouts(held[1], s))
    /\ edits' = edits + 1
    /\ view' = None /\ variants_call' = None
    /\ UNCHANGED origin
    /\ UNCHANGED <<fs, trace, loaded, reloaded>>
    /\ UNCHANGED loaderVars /\ UNCHANGED concatVars

\* held.layouts()[i].variants()
Variants(i) ==
    /\ held # None
    /\ i \in 1..Len(layouts(held[1]))
    /\ variants_call' = Some([of |-> layouts(held[1])[i],
                              got |-> variants(layouts(held[1])[i])])
    /\ UNCHANGED <<held, origin, edits, view>>
    /\ UNCHANGED <<fs, trace, loaded, reloaded>>
    /\ UNCHANGED loaderVars /\ UNCHANGED concatVars

NextCatalog ==
    \/ \E path \in LoadPaths : Load(path)
    \/ \E path \in LoadPaths, f \in InstalledFiles : WriteFile(path, f)
    \/ \E path \in LoadPaths : Keep(path)
    \/ Drop
    \/ Layouts
    \/ LayoutsMut
    \/ \E i \in 1..MaxLayouts : Variants(i)

SpecCatalog == InitCatalogSpec /\ [][NextCatalog]_vars

\* C5 as amended: variants() returns nothing when the variant list is absent
\* and when its inner sequence is absent; when the inner sequence is present
\* it returns that sequence as stored, also when it is empty.  A catalog
\* that was loaded and not edited never holds a present empty sequence.
C5_VariantsIsInnerSequence ==
    variants_call # None =>
        LET l == variants_call[1].of
            got == variants_call[1].got
        IN  /\ l.variant_list = None => got = None
            /\ (l.variant_list # None /\ l.variant_list[1].variant = None) =>
                  got = None
            /\ (l.variant_list # None /\ l.variant_list[1].variant # None) =>
                  /\ got # None
                  /\ Len(got[1]) = Len(l.variant_list[1].variant[1])
                  /\ \A k \in 1..Len(got[1]) :
                        got[1][k] = l.variant_list[1].variant[1][k]
            /\ edits = 0 => got # Some(<< >>)

\* C5 witness: variants() was called on a layout whose inner sequence is
\* present and empty, and returned that empty sequence.
C5_Witness ==
    /\ variants_call # None
    /\ variants_call[1].of.variant_list # None
    /\ variants_call[1].of.variant_list[1].variant = Some(<< >>)
    /\ variants_call[1].got = Some(<< >>)

\* C5 as claimed: variants() returns nothing when the variant list is absent,
\* when the inner sequence is absent and when the inner sequence is empty, and
\* the N >= 1 stored variants otherwise: an empty sequence is never returned
\* as a present result.
C5_EmptyIsNeverPresent ==
    variants_call # None =>
        LET l == variants_call[1].of
            got == variants_call[1].got
        IN  /\ (\/ l.variant_list = None
                \/ l.variant_list[1].variant = None
                \/ l.variant_list[1].variant = Some(<< >>)) => got = None
            /\ got # None => got # Some(<< >>) /\ got = l.variant_list[1].variant

C9_LengthIsKept ==
    held # None =>
        /\ Len(layouts(held[1])) = Len(layouts(origin[1]))
        /\ view # None => view[1] = layouts(held[1])

\* C9 witness: a catalog after the most edits, different from what was
\* loaded, read through layouts().
C9_Witness ==
    /\ held # None /\ edits >= 2 /\ held # origin
    /\ view # None

-----------------------------------------------------------------------------
(* Specification SpecConcat: concat_layout_lists on every sequence of at   *)
(* most MaxLists lists of at most MaxListLen layouts.                      *)

SampleLayouts == {CustomLayout, PlainLayout}
SampleLists == {[layout |-> s] : s \in SeqUpTo(SampleLayouts, MaxListLen)}

InitConcatSpec ==
    /\ fs = [p \in Paths |-> Absent]
    /\ InitLoader /\ InitCatalog
    /\ lists \in {Some(ls) : ls \in SeqUpTo(SampleLists, MaxLists)}
    /\ concat_ret = None
    /\ trace = << >>
    /\ loaded = [p \in Paths |-> None]
    /\ reloaded = None

\* concat_layout_lists(layouts), on the argument drawn in the initial state
ConcatLayoutLists ==
    /\ concat_ret = None
    /\ concat_ret' = Some(concat_layout_lists(lists[1]))
    /\ UNCHANGED <<fs, trace, loaded, reloaded, lists>>
    /\ UNCHANGED loaderVars /\ UNCHANGED catalogVars

NextConcat == ConcatLayoutLists

SpecConcat == InitConcatSpec /\ [][NextConcat]_vars

\* The number of layouts in the first n lists.
RECURSIVE LayoutsBefore(_, _)
LayoutsBefore(ls, n) ==
    IF n = 0 THEN 0 ELSE LayoutsBefore(ls, n - 1) + Len(ls[n].layout)

\* C10: the result of concat_layout_lists is the flattening of its input in
\* input order: its length is the sum of the input lengths, and layout j of
\* list i is at position (layouts of the lists before i) + j, so nothing is
\* dropped, repeated, reordered or deduplicated; no lists give no layouts.
C10_ConcatIsFlattening ==
    concat_ret # None =>
        LET ls == lists[1]
            out == concat_ret[1].layout
        IN  /\ Len(out) = LayoutsBefore(ls, Len(ls))
            /\ \A i \in 1..Len(ls) :
               \A j \in 1..Len(ls[i].layout) :
                  out[LayoutsBefore(ls, i - 1) + j] = ls[i].layout[j]
            /\ ls = << >> => out = << >>

\* C10 witness: three lists, the second one empty, the first and the third
\* holding the same layout; the call returned.
C10_Witness ==
    /\ concat_ret # None
    /\ Len(lists[1]) = 3
    /\ lists[1][2].layout = << >>
    /\ lists[1][1].layout # << >>
    /\ lists[1][3].layout # << >>
    /\ lists[1][1].layout[1] = lists[1][3].layout[1]

====
